---- MODULE Spec2Model ----
(***************************************************************************)
(* Model of pkg/autoscaler/autoscaler.go: one Autoscaler and its scale     *)
(* target.  A Reconcile pass is split at its blocking calls (metric        *)
(* lookups, scale target Get, scale target Update); the code between two   *)
(* calls is one atomic step.  Passes of one autoscaler are serialized by   *)
(* the caller.  Time is a discrete clock; a pass is short against one      *)
(* tick, so the clock and the other writers of the scale target move       *)
(* between passes (a write that lands between Get and Update is either     *)
(* overwritten by the Update or reported by it as a failure).              *)
(***************************************************************************)
EXTENDS Integers, Sequences, FiniteSets, TLC

\* ---------------------------------------------------------------- bounds
\* Replica counts (recommendations, target replicas, Min/MaxReplicas) range
\* over 0..MaxReplicaCount.
MaxReplicaCount == 1
\* The clock runs from 0 to MaxTime.
MaxTime == 1
\* a.Spec.Metrics holds 1..MaxMetrics metric specs.
MaxMetrics == 2
\* The scaling rules of one direction hold 0..MaxPolicies rate policies.
MaxPolicies == 1

ReplicaCounts == 0..MaxReplicaCount
Times == 0..MaxTime
\* A stabilization window is absent (0 seconds) or spans the modelled time.
Windows == {0, MaxTime}
\* Status.Replicas as the workload reports it: nothing runs yet, or the
\* largest count runs.  It is independent of Spec.Replicas.
ObservedCounts == {0, MaxReplicaCount}

\* ------------------------------------------------------------- pointers
\* A Go pointer is the empty sequence (nil) or a one-element sequence.
Nil == <<>>
Ptr(v) == <<v>>
Deref(p) == p[1]

\* ------------------------------------------------------------ data model
SelectPolicies == {"Unset", "Max", "Min", "Disabled"}

\* A rate policy: a change of at most Value replicas, or Value percent.
ScalingPolicy == [Type : {"Count", "Percent"}, Value : {0, MaxReplicaCount}]

PolicyLists == UNION {[1..n -> ScalingPolicy] : n \in 0..MaxPolicies}

ScalingRules == [StabilizationWindowSeconds : Windows, Policies : PolicyLists]

Behavior == [SelectPolicy : SelectPolicies, ScaleUp : ScalingRules, ScaleDown : ScalingRules]

\* Metrics is the number of metric specs.
HorizontalAutoscalerSpec ==
    [Metrics : 1..MaxMetrics, MinReplicas : ReplicaCounts,
     MaxReplicas : ReplicaCounts, Behavior : Behavior]

ConditionTypes == {"AbleToScale", "ScalingUnbounded"}

\* Status of a freshly created HorizontalAutoscaler.  A condition is
\* represented by its status; reason and message are not modelled.
InitialStatus ==
    [CurrentReplicas |-> Nil, DesiredReplicas |-> Nil, LastScaleTime |-> Nil,
     Conditions |-> [t \in ConditionTypes |-> "Unknown"]]

\* v1.Scale: the replica counts of the scale subresource.
Scale == [Spec : [Replicas : ReplicaCounts], Status : [Replicas : ObservedCounts]]

\* ------------------------------------------------------- condition manager
MarkTrue(status, t) == [status EXCEPT !.Conditions[t] = "True"]

MarkFalse(status, t) == [status EXCEPT !.Conditions[t] = "False"]

\* ------------------------------------------------------ functional helpers
Range(s) == {s[i] : i \in DOMAIN s}

MaxInt32(s) == CHOOSE x \in Range(s) : \A y \in Range(s) : x >= y

MinInt32(s) == CHOOSE x \in Range(s) : \A y \in Range(s) : x <= y

\* --------------------------------------------------------------- Behavior
GetSelectPolicy(behavior) ==
    IF behavior.SelectPolicy = "Unset" THEN "Max" ELSE behavior.SelectPolicy

ApplySelectPolicy(behavior, replicas, recommendations) ==
    CASE GetSelectPolicy(behavior) = "Max" -> MaxInt32(recommendations)
      [] GetSelectPolicy(behavior) = "Min" -> MinInt32(recommendations)
      [] GetSelectPolicy(behavior) = "Disabled" -> replicas

\* The rules of the direction the recommendations imply.  When no
\* recommendation differs from replicas there is no direction; `tie` names
\* the rules then used.
GetScalingRules(behavior, replicas, recommendations, tie) ==
    IF \E i \in DOMAIN recommendations : recommendations[i] > replicas
    THEN behavior.ScaleUp
    ELSE IF \E i \in DOMAIN recommendations : recommendations[i] < replicas
         THEN behavior.ScaleDown
         ELSE behavior[tie]

\* time.Now() is t.
WithinStabilizationWindow(rules, lastScaleTime, t) ==
    /\ lastScaleTime # Nil
    /\ t < Deref(lastScaleTime) + rules.StabilizationWindowSeconds

\* ------------------------------------------------------------- Autoscaler
\* Each of the three functions below returns its Go return value as `ret`
\* and the HorizontalAutoscaler status it leaves behind as `Status`.

\* applyBoundedLimits without the MinInt32 against MaxReplicas.
applyBoundedLimits_NoUpperBound(spec, status, desiredReplicas) ==
    LET boundedReplicas == MaxInt32(<<desiredReplicas, spec.MinReplicas>>)
    IN  [ret |-> boundedReplicas,
         Status |->
            IF boundedReplicas # desiredReplicas
            THEN MarkFalse(status, "ScalingUnbounded")
            ELSE MarkTrue(status, "ScalingUnbounded")]

\* applyBoundedLimits with the branches of its condition test swapped.
applyBoundedLimits_SwappedMarks(spec, status, desiredReplicas) ==
    LET boundedReplicas ==
            MinInt32(<<MaxInt32(<<desiredReplicas, spec.MinReplicas>>), spec.MaxReplicas>>)
    IN  [ret |-> boundedReplicas,
         Status |->
            IF boundedReplicas = desiredReplicas
            THEN MarkFalse(status, "ScalingUnbounded")
            ELSE MarkTrue(status, "ScalingUnbounded")]

\* applyBoundedLimits taking the smaller of value and MaxReplicas first.
applyBoundedLimits_UpperFirst(spec, status, desiredReplicas) ==
    LET boundedReplicas ==
            MaxInt32(<<MinInt32(<<desiredReplicas, spec.MaxReplicas>>), spec.MinReplicas>>)
    IN  [ret |-> boundedReplicas,
         Status |->
            IF boundedReplicas # desiredReplicas
            THEN MarkFalse(status, "ScalingUnbounded")
            ELSE MarkTrue(status, "ScalingUnbounded")]

\* applyBoundedLimits that reports a clamp only when the limiter let the
\* recommendation through.
applyBoundedLimits_DefersToLimiter(spec, status, desiredReplicas) ==
    LET boundedReplicas ==
            MinInt32(<<MaxInt32(<<desiredReplicas, spec.MinReplicas>>), spec.MaxReplicas>>)
    IN  [ret |-> boundedReplicas,
         Status |->
            IF boundedReplicas # desiredReplicas /\ status.Conditions["AbleToScale"] = "True"
            THEN MarkFalse(status, "ScalingUnbounded")
            ELSE MarkTrue(status, "ScalingUnbounded")]

applyBoundedLimits(spec, status, desiredReplicas) ==
    LET boundedReplicas ==
            MinInt32(<<MaxInt32(<<desiredReplicas, spec.MinReplicas>>), spec.MaxReplicas>>)
    IN  [ret |-> boundedReplicas,
         Status |->
            IF boundedReplicas # desiredReplicas
            THEN MarkFalse(status, "ScalingUnbounded")
            ELSE MarkTrue(status, "ScalingUnbounded")]

\* The time named by the message of line 179: the end of the window.
AbleToScaleAt(rules, lastScaleTime) ==
    Deref(lastScaleTime) + rules.StabilizationWindowSeconds

\* applyTransientLimits falling through to the recommendation inside the window.
applyTransientLimits_IgnoresWindow(spec, status, replicas, recommendation, t, tie) ==
    LET rules == GetScalingRules(spec.Behavior, replicas, <<recommendation>>, tie)
    IN  IF WithinStabilizationWindow(rules, status.LastScaleTime, t)
        THEN [ret |-> recommendation,
              rules |-> rules,
              ableAt |-> Ptr(AbleToScaleAt(rules, status.LastScaleTime)),
              Status |-> MarkFalse(status, "AbleToScale")]
        ELSE [ret |-> recommendation,
              rules |-> rules,
              ableAt |-> Nil,
              Status |-> MarkTrue(status, "AbleToScale")]

\* applyTransientLimits that marks the condition only when it limits.
applyTransientLimits_SilentPass(spec, status, replicas, recommendation, t, tie) ==
    LET rules == GetScalingRules(spec.Behavior, replicas, <<recommendation>>, tie)
    IN  IF WithinStabilizationWindow(rules, status.LastScaleTime, t)
        THEN [ret |-> replicas,
              rules |-> rules,
              ableAt |-> Ptr(AbleToScaleAt(rules, status.LastScaleTime)),
              Status |-> MarkFalse(status, "AbleToScale")]
        ELSE [ret |-> recommendation,
              rules |-> rules,
              ableAt |-> Nil,
              Status |-> status]

\* applyTransientLimits checking the scale up window whatever the direction.
applyTransientLimits_UpRulesOnly(spec, status, replicas, recommendation, t, tie) ==
    LET rules == spec.Behavior.ScaleUp
    IN  IF WithinStabilizationWindow(rules, status.LastScaleTime, t)
        THEN [ret |-> replicas,
              rules |-> rules,
              ableAt |-> Ptr(AbleToScaleAt(rules, status.LastScaleTime)),
              Status |-> MarkFalse(status, "AbleToScale")]
        ELSE [ret |-> recommendation,
              rules |-> rules,
              ableAt |-> Nil,
              Status |-> MarkTrue(status, "AbleToScale")]

\* applyTransientLimits holding back an autoscaler that has never scaled.
applyTransientLimits_UnsetBlocks(spec, status, replicas, recommendation, t, tie) ==
    LET rules == GetScalingRules(spec.Behavior, replicas, <<recommendation>>, tie)
    IN  IF status.LastScaleTime = Nil
        THEN [ret |-> replicas,
              rules |-> rules,
              ableAt |-> Nil,
              Status |-> MarkFalse(status, "AbleToScale")]
        ELSE IF WithinStabilizationWindow(rules, status.LastScaleTime, t)
        THEN [ret |-> replicas,
              rules |-> rules,
              ableAt |-> Ptr(AbleToScaleAt(rules, status.LastScaleTime)),
              Status |-> MarkFalse(status, "AbleToScale")]
        ELSE [ret |-> recommendation,
              rules |-> rules,
              ableAt |-> Nil,
              Status |-> MarkTrue(status, "AbleToScale")]

\* applyTransientLimits with step 2 filled in for Count policies: the change
\* is held to the smallest Value.
applyTransientLimits_CountPolicy(spec, status, replicas, recommendation, t, tie) ==
    LET rules == GetScalingRules(spec.Behavior, replicas, <<recommendation>>, tie)
        counts == {rules.Policies[i].Value : i \in
                      {j \in DOMAIN rules.Policies : rules.Policies[j].Type = "Count"}}
        change == IF recommendation > replicas THEN recommendation - replicas
                  ELSE replicas - recommendation
        held == \E v \in counts : v < change
        step == CHOOSE v \in counts : \A w \in counts : v <= w
    IN  IF WithinStabilizationWindow(rules, status.LastScaleTime, t)
        THEN [ret |-> replicas,
              rules |-> rules,
              ableAt |-> Ptr(AbleToScaleAt(rules, status.LastScaleTime)),
              Status |-> MarkFalse(status, "AbleToScale")]
        ELSE IF held
        THEN [ret |-> IF recommendation > replicas THEN replicas + step
                      ELSE replicas - step,
              rules |-> rules,
              ableAt |-> Nil,
              Status |-> MarkFalse(status, "AbleToScale")]
        ELSE [ret |-> recommendation,
              rules |-> rules,
              ableAt |-> Nil,
              Status |-> MarkTrue(status, "AbleToScale")]

\* `ableAt` is the time the message of the False condition names (Nil when
\* no message is written).  The loop over rules.Policies of step 2 writes a
\* log line per policy and changes neither the value nor the status.
applyTransientLimits(spec, status, replicas, recommendation, t, tie) ==
    LET rules == GetScalingRules(spec.Behavior, replicas, <<recommendation>>, tie)
    IN  IF WithinStabilizationWindow(rules, status.LastScaleTime, t)
        THEN [ret |-> replicas,
              rules |-> rules,
              ableAt |-> Ptr(AbleToScaleAt(rules, status.LastScaleTime)),
              Status |-> MarkFalse(status, "AbleToScale")]
        ELSE [ret |-> recommendation,
              rules |-> rules,
              ableAt |-> Nil,
              Status |-> MarkTrue(status, "AbleToScale")]

\* getDesiredReplicas handing the first recommendation, not the selected
\* one, to applyTransientLimits.
getDesiredReplicas_LimitsFirst(spec, status, recommendations, scaleTarget, t, tie) ==
    LET recommendation ==
            ApplySelectPolicy(spec.Behavior, scaleTarget.Spec.Replicas, recommendations)
        limited ==
            applyTransientLimits(spec, status, scaleTarget.Spec.Replicas,
                                 recommendations[1], t, tie)
        bounded == applyBoundedLimits(spec, limited.Status, limited.ret)
    IN  [ret |-> bounded.ret,
         Status |-> bounded.Status,
         recommendation |-> recommendation,
         rules |-> limited.rules,
         ableAt |-> limited.ableAt,
         limited |-> limited.ret]

\* getDesiredReplicas returning the limiter's value unclamped when the
\* limiter held the replicas.
getDesiredReplicas_ReturnsWhenLimited(spec, status, recommendations, scaleTarget, t, tie) ==
    LET recommendation ==
            ApplySelectPolicy(spec.Behavior, scaleTarget.Spec.Replicas, recommendations)
        limited ==
            applyTransientLimits(spec, status, scaleTarget.Spec.Replicas, recommendation, t, tie)
        bounded ==
            IF limited.Status.Conditions["AbleToScale"] = "False"
            THEN [ret |-> limited.ret, Status |-> MarkTrue(limited.Status, "ScalingUnbounded")]
            ELSE applyBoundedLimits(spec, limited.Status, limited.ret)
    IN  [ret |-> bounded.ret,
         Status |-> bounded.Status,
         recommendation |-> recommendation,
         rules |-> limited.rules,
         ableAt |-> limited.ableAt,
         limited |-> limited.ret]

\* getDesiredReplicas clamping the recommendation without asking the limiter.
getDesiredReplicas_SkipsLimiter(spec, status, recommendations, scaleTarget, t, tie) ==
    LET recommendation ==
            ApplySelectPolicy(spec.Behavior, scaleTarget.Spec.Replicas, recommendations)
        limited ==
            applyTransientLimits(spec, status, scaleTarget.Spec.Replicas, recommendation, t, tie)
        bounded == applyBoundedLimits(spec, limited.Status, recommendation)
    IN  [ret |-> bounded.ret,
         Status |-> bounded.Status,
         recommendation |-> recommendation,
         rules |-> limited.rules,
         ableAt |-> limited.ableAt,
         limited |-> recommendation]

\* getDesiredReplicas returning the limiter's value, the clamp only marking
\* the condition.
getDesiredReplicas_Unbounded(spec, status, recommendations, scaleTarget, t, tie) ==
    LET recommendation ==
            ApplySelectPolicy(spec.Behavior, scaleTarget.Spec.Replicas, recommendations)
        limited ==
            applyTransientLimits(spec, status, scaleTarget.Spec.Replicas, recommendation, t, tie)
        bounded == applyBoundedLimits(spec, limited.Status, limited.ret)
    IN  [ret |-> limited.ret,
         Status |-> bounded.Status,
         recommendation |-> recommendation,
         rules |-> limited.rules,
         ableAt |-> limited.ableAt,
         limited |-> limited.ret]

getDesiredReplicas(spec, status, recommendations, scaleTarget, t, tie) ==
    LET recommendation ==
            ApplySelectPolicy(spec.Behavior, scaleTarget.Spec.Replicas, recommendations)
        limited ==
            applyTransientLimits(spec, status, scaleTarget.Spec.Replicas, recommendation, t, tie)
        bounded == applyBoundedLimits(spec, limited.Status, limited.ret)
    IN  [ret |-> bounded.ret,
         Status |-> bounded.Status,
         recommendation |-> recommendation,
         rules |-> limited.rules,
         ableAt |-> limited.ableAt,
         limited |-> limited.ret]

\* The test made against the replicas the workload reports.
NoChange_StatusReplicas(desiredReplicas, scaleTarget) ==
    desiredReplicas = scaleTarget.Status.Replicas

\* Reconcile's test for leaving the scale target alone.
NoChange(desiredReplicas, scaleTarget) == desiredReplicas = scaleTarget.Spec.Replicas

\* ------------------------------------------------------------------ state
VARIABLES
    AutoscalerSpec,   \* a.Spec
    Status,           \* a.Status
    target,           \* Spec.Replicas of the scale subresource on the API server
    now,              \* the clock
    pc,               \* where the current Reconcile pass stands
    err,              \* what Reconcile returns
    metrics,          \* Reconcile's local `metrics`
    scaleTarget,      \* Reconcile's local `scaleTarget` (Nil before the Get)
    existingReplicas, \* Reconcile's local `existingReplicas` (Nil until assigned)
    recommendations,  \* getDesiredReplicas' local `recommendations` (Nil unless traced)
    desired,          \* the values getDesiredReplicas computed (Nil before)
    entryStatus,      \* a.Status when the pass was entered
    getCalls,         \* Get calls issued to the API server in this pass
    updateCalls,      \* Update calls issued to the API server in this pass
    lastUpdate,       \* the last Update the API server accepted (Nil if none)
    outcomes          \* the condition pairs traced passes have left behind

vars == <<AutoscalerSpec, Status, target, now, pc, err, metrics, scaleTarget,
          existingReplicas, recommendations, desired, entryStatus, getCalls,
          updateCalls, lastUpdate, outcomes>>

history == <<lastUpdate, outcomes>>

locals == <<metrics, scaleTarget, existingReplicas, recommendations, desired>>

Errors == {"nil", "MetricError", "ResolutionError", "FetchError",
           "UpdateResolutionError", "UpdateError"}

\* The autoscaler as Factory.For returns it for a new resource.
InitFor(specs) ==
    /\ AutoscalerSpec \in specs
    /\ Status = InitialStatus
    /\ target \in ReplicaCounts
    /\ now = 0
    /\ pc = "Idle"
    /\ err = "nil"
    /\ metrics = <<>>
    /\ scaleTarget = Nil
    /\ existingReplicas = Nil
    /\ recommendations = Nil
    /\ desired = Nil
    /\ entryStatus = InitialStatus
    /\ getCalls = 0
    /\ updateCalls = 0
    /\ lastUpdate = Nil
    /\ outcomes = {}

NoPolicies(s) ==
    /\ s.Behavior.ScaleUp.Policies = <<>>
    /\ s.Behavior.ScaleDown.Policies = <<>>

\* An autoscaler over MaxMetrics metrics, with any bounds, windows and select
\* policy, without rate policies.
Init == InitFor({s \in HorizontalAutoscalerSpec : s.Metrics = MaxMetrics /\ NoPolicies(s)})

\* An autoscaler over any number of metrics with any policy, without
\* stabilization windows and with the widest bounds: what the selection
\* yields reaches the scale target unchanged.
InitSelect ==
    InitFor({s \in HorizontalAutoscalerSpec :
                /\ NoPolicies(s)
                /\ s.MinReplicas = 0
                /\ s.MaxReplicas = MaxReplicaCount
                /\ s.Behavior.ScaleUp.StabilizationWindowSeconds = 0
                /\ s.Behavior.ScaleDown.StabilizationWindowSeconds = 0})

\* ------------------------------------------------------------- environment
Tick ==
    /\ pc = "Idle"
    /\ now < MaxTime
    /\ now' = now + 1
    /\ UNCHANGED <<history, AutoscalerSpec, Status, target, pc, err, locals, entryStatus,
                   getCalls, updateCalls>>

\* Another actor writes the replica count of the scale target.
ExternalChange ==
    /\ pc = "Idle"
    /\ \E r \in ReplicaCounts : r # target /\ target' = r
    /\ UNCHANGED <<history, AutoscalerSpec, Status, now, pc, err, locals, entryStatus,
                   getCalls, updateCalls>>

\* --------------------------------------------------------------- Reconcile
\* The caller starts a pass.
ReconcileBegin ==
    /\ pc = "Idle"
    /\ pc' = "FetchingMetrics"
    /\ entryStatus' = Status
    /\ UNCHANGED <<history, AutoscalerSpec, Status, target, now, err, locals, getCalls,
                   updateCalls>>

\* Reconcile has returned err; its locals go out of scope.
ReconcileReturn ==
    /\ pc \in {"Done", "Failed"}
    /\ pc' = "Idle"
    /\ err' = "nil"
    /\ metrics' = <<>>
    /\ scaleTarget' = Nil
    /\ existingReplicas' = Nil
    /\ recommendations' = Nil
    /\ desired' = Nil
    /\ entryStatus' = Status
    /\ getCalls' = 0
    /\ updateCalls' = 0
    /\ UNCHANGED <<history, AutoscalerSpec, Status, target, now>>

\* getMetrics: one GetCurrentValue call of the loop returns a value.  A
\* Metric is represented by the position of its metric spec.
GetCurrentValueOk ==
    /\ pc = "FetchingMetrics"
    /\ Len(metrics) < AutoscalerSpec.Metrics
    /\ metrics' = Append(metrics, Len(metrics) + 1)
    /\ pc' = IF Len(metrics') = AutoscalerSpec.Metrics THEN "FetchingTarget" ELSE pc
    /\ UNCHANGED <<history, AutoscalerSpec, Status, target, now, err, scaleTarget,
                   existingReplicas, recommendations, desired, entryStatus,
                   getCalls, updateCalls>>

\* getMetrics: one GetCurrentValue call fails; Reconcile returns the error.
GetCurrentValueFail ==
    /\ pc = "FetchingMetrics"
    /\ Len(metrics) < AutoscalerSpec.Metrics
    /\ metrics' = <<>>
    /\ pc' = "Failed"
    /\ err' = "MetricError"
    /\ UNCHANGED <<history, AutoscalerSpec, Status, target, now, scaleTarget,
                   existingReplicas, recommendations, desired, entryStatus,
                   getCalls, updateCalls>>

\* getScaleTarget: parseGroupResource fails, no Get is issued.
GetScaleTargetParseFail ==
    /\ pc = "FetchingTarget"
    /\ pc' = "Failed"
    /\ err' = "ResolutionError"
    /\ UNCHANGED <<history, AutoscalerSpec, Status, target, now, locals, entryStatus,
                   getCalls, updateCalls>>

\* A failed Get after which CurrentReplicas is reset.
GetScaleTargetFail_ResetsCurrent ==
    /\ pc = "FetchingTarget"
    /\ getCalls' = getCalls + 1
    /\ Status' = [Status EXCEPT !.CurrentReplicas = Nil]
    /\ pc' = "Failed"
    /\ err' = "FetchError"
    /\ UNCHANGED <<history, AutoscalerSpec, target, now, locals, entryStatus, updateCalls>>

\* A failed Get that is issued once more before Reconcile gives up.
GetScaleTargetFail_Retries ==
    /\ pc = "FetchingTarget"
    /\ getCalls' = getCalls + 1
    /\ pc' = IF getCalls = 0 THEN pc ELSE "Failed"
    /\ err' = IF getCalls = 0 THEN err ELSE "FetchError"
    /\ UNCHANGED <<history, AutoscalerSpec, Status, target, now, locals, entryStatus,
                   updateCalls>>

\* getScaleTarget: the Get call fails.
GetScaleTargetFail ==
    /\ pc = "FetchingTarget"
    /\ getCalls' = getCalls + 1
    /\ pc' = "Failed"
    /\ err' = "FetchError"
    /\ UNCHANGED <<history, AutoscalerSpec, Status, target, now, locals, entryStatus,
                   updateCalls>>

\* getScaleTarget succeeds; Reconcile records the current replicas.
GetScaleTargetOk ==
    /\ pc = "FetchingTarget"
    /\ getCalls' = getCalls + 1
    /\ \E got \in Scale :
          /\ got.Spec.Replicas = target
          /\ scaleTarget' = Ptr(got)
          /\ Status' = [Status EXCEPT !.CurrentReplicas = Ptr(got.Status.Replicas)]
    /\ pc' = "ComputingRecommendation"
    /\ UNCHANGED <<history, AutoscalerSpec, target, now, err, metrics, existingReplicas,
                   recommendations, desired, entryStatus, updateCalls>>

\* Steps 3 and 4 of Reconcile up to the Update call.  The algorithm is a
\* pluggable strategy: its recommendation for each metric is any replica
\* count.  `traced` keeps the recommendation list of the pass and adds the
\* pair of conditions the pass leaves to `outcomes`.
Compute(traced) ==
    /\ pc = "ComputingRecommendation"
    /\ \E recs \in [1..Len(metrics) -> ReplicaCounts], tie \in {"ScaleUp", "ScaleDown"} :
        \E d \in {getDesiredReplicas(AutoscalerSpec, Status, recs,
                                     Deref(scaleTarget), now, tie)} :
          \* tie is read only when the recommendation equals the replicas
          /\ tie = "ScaleUp" \/ d.recommendation = Deref(scaleTarget).Spec.Replicas
          /\ Status' = d.Status
          /\ recommendations' = IF traced THEN Ptr(recs) ELSE Nil
          /\ outcomes' = IF traced
                         THEN outcomes \cup {<<d.Status.Conditions["ScalingUnbounded"],
                                                d.Status.Conditions["AbleToScale"]>>}
                         ELSE outcomes
          /\ desired' = Ptr([recommendation |-> d.recommendation,
                             rules |-> d.rules,
                             ableAt |-> d.ableAt,
                             limited |-> d.limited,
                             desiredReplicas |-> d.ret])
          /\ IF NoChange(d.ret, Deref(scaleTarget))
             THEN /\ pc' = "Done"
                  /\ err' = "nil"
                  /\ UNCHANGED <<scaleTarget, existingReplicas>>
             ELSE /\ existingReplicas' = Ptr(Deref(scaleTarget).Spec.Replicas)
                  /\ scaleTarget' = Ptr([Deref(scaleTarget) EXCEPT !.Spec.Replicas = d.ret])
                  /\ pc' = "Updating"
                  /\ UNCHANGED err
    /\ UNCHANGED <<lastUpdate, AutoscalerSpec, target, now, metrics, entryStatus,
                   getCalls, updateCalls>>

ComputeDesiredReplicas == Compute(FALSE)

ComputeDesiredReplicasTraced == Compute(TRUE)

\* A failed parse at the update with DesiredReplicas recorded beforehand.
UpdateScaleTargetParseFail_RecordsDesired ==
    /\ pc = "Updating"
    /\ Status' = [Status EXCEPT !.DesiredReplicas = Ptr(Deref(scaleTarget).Spec.Replicas)]
    /\ pc' = "Failed"
    /\ err' = "UpdateResolutionError"
    /\ UNCHANGED <<history, AutoscalerSpec, target, now, locals, entryStatus, getCalls,
                   updateCalls>>

\* updateScaleTarget: parseGroupResource fails, no Update is issued.
UpdateScaleTargetParseFail ==
    /\ pc = "Updating"
    /\ pc' = "Failed"
    /\ err' = "UpdateResolutionError"
    /\ UNCHANGED <<history, AutoscalerSpec, Status, target, now, locals, entryStatus,
                   getCalls, updateCalls>>

\* A failed Update with the scale recorded before the error is looked at.
UpdateScaleTargetFail_RecordsScale ==
    /\ pc = "Updating"
    /\ updateCalls' = updateCalls + 1
    /\ Status' = [Status EXCEPT !.DesiredReplicas = Ptr(Deref(scaleTarget).Spec.Replicas),
                                !.LastScaleTime = Ptr(now)]
    /\ pc' = "Failed"
    /\ err' = "UpdateError"
    /\ UNCHANGED <<history, AutoscalerSpec, target, now, locals, entryStatus, getCalls>>

\* updateScaleTarget: the Update call fails and the server keeps its state.
UpdateScaleTargetFail ==
    /\ pc = "Updating"
    /\ updateCalls' = updateCalls + 1
    /\ pc' = "Failed"
    /\ err' = "UpdateError"
    /\ UNCHANGED <<history, AutoscalerSpec, Status, target, now, locals, entryStatus,
                   getCalls>>

\* A successful Update after which LastScaleTime is left alone.
UpdateScaleTargetOk_KeepsScaleTime ==
    /\ pc = "Updating"
    /\ updateCalls' = updateCalls + 1
    /\ target' = Deref(scaleTarget).Spec.Replicas
    /\ Status' = [Status EXCEPT !.DesiredReplicas = Ptr(Deref(scaleTarget).Spec.Replicas)]
    /\ pc' = "Done"
    /\ err' = "nil"
    /\ lastUpdate' = Ptr([replicas |-> Deref(scaleTarget).Spec.Replicas, time |-> now])
    /\ UNCHANGED <<outcomes, AutoscalerSpec, now, locals, entryStatus, getCalls>>

\* A successful Update after which the replaced count is recorded.
UpdateScaleTargetOk_RecordsExisting ==
    /\ pc = "Updating"
    /\ updateCalls' = updateCalls + 1
    /\ target' = Deref(scaleTarget).Spec.Replicas
    /\ Status' = [Status EXCEPT !.DesiredReplicas = existingReplicas,
                                !.LastScaleTime = Ptr(now)]
    /\ pc' = "Done"
    /\ err' = "nil"
    /\ lastUpdate' = Ptr([replicas |-> Deref(scaleTarget).Spec.Replicas, time |-> now])
    /\ UNCHANGED <<outcomes, AutoscalerSpec, now, locals, entryStatus, getCalls>>

\* updateScaleTarget succeeds; the server holds the count sent, and
\* Reconcile records the scale.
UpdateScaleTargetOk ==
    /\ pc = "Updating"
    /\ updateCalls' = updateCalls + 1
    /\ target' = Deref(scaleTarget).Spec.Replicas
    /\ Status' = [Status EXCEPT !.DesiredReplicas = Ptr(Deref(scaleTarget).Spec.Replicas),
                                !.LastScaleTime = Ptr(now)]
    /\ pc' = "Done"
    /\ err' = "nil"
    /\ lastUpdate' = Ptr([replicas |-> Deref(scaleTarget).Spec.Replicas, time |-> now])
    /\ UNCHANGED <<outcomes, AutoscalerSpec, now, locals, entryStatus, getCalls>>

Next ==
    \/ Tick
    \/ ExternalChange
    \/ ReconcileBegin
    \/ ReconcileReturn
    \/ GetCurrentValueOk
    \/ GetCurrentValueFail
    \/ GetScaleTargetParseFail
    \/ GetScaleTargetFail
    \/ GetScaleTargetOk
    \/ ComputeDesiredReplicas
    \/ UpdateScaleTargetParseFail
    \/ UpdateScaleTargetFail
    \/ UpdateScaleTargetOk

Spec == Init /\ [][Next]_vars

\* The same passes, keeping each pass's recommendation list.
NextSelect ==
    \/ Tick
    \/ ExternalChange
    \/ ReconcileBegin
    \/ ReconcileReturn
    \/ GetCurrentValueOk
    \/ GetCurrentValueFail
    \/ GetScaleTargetParseFail
    \/ GetScaleTargetFail
    \/ GetScaleTargetOk
    \/ ComputeDesiredReplicasTraced
    \/ UpdateScaleTargetParseFail
    \/ UpdateScaleTargetFail
    \/ UpdateScaleTargetOk

SpecSelect == InitSelect /\ [][NextSelect]_vars

\* An autoscaler whose bounds exclude a replica count the scale target can
\* hold and whose windows span the modelled time, traced.
InitOrthogonal ==
    InitFor({s \in HorizontalAutoscalerSpec :
                /\ NoPolicies(s)
                /\ s.Metrics = 1
                /\ s.MinReplicas = 0
                /\ s.MaxReplicas = 0
                /\ s.Behavior.ScaleUp.StabilizationWindowSeconds = MaxTime
                /\ s.Behavior.ScaleDown.StabilizationWindowSeconds = MaxTime})

SpecOrthogonal == InitOrthogonal /\ [][NextSelect]_vars

\* An autoscaler with any rate policies in its scaling rules, one metric, the
\* default select policy, the widest bounds and both windows spanning the
\* modelled time.
InitPolicies ==
    InitFor({s \in HorizontalAutoscalerSpec :
                /\ s.Metrics = 1
                /\ s.MinReplicas = 0
                /\ s.MaxReplicas = MaxReplicaCount
                /\ s.Behavior.SelectPolicy = "Unset"
                /\ s.Behavior.ScaleUp.StabilizationWindowSeconds = MaxTime
                /\ s.Behavior.ScaleDown.StabilizationWindowSeconds = MaxTime})

SpecPolicies == InitPolicies /\ [][Next]_vars

\* The passes of an autoscaler that is the only writer of its scale target.
NextQuiet ==
    \/ Tick
    \/ ReconcileBegin
    \/ ReconcileReturn
    \/ GetCurrentValueOk
    \/ GetCurrentValueFail
    \/ GetScaleTargetParseFail
    \/ GetScaleTargetFail
    \/ GetScaleTargetOk
    \/ ComputeDesiredReplicas
    \/ UpdateScaleTargetParseFail
    \/ UpdateScaleTargetFail
    \/ UpdateScaleTargetOk

SpecQuiet == Init /\ [][NextQuiet]_vars

TypeOK ==
    /\ AutoscalerSpec \in HorizontalAutoscalerSpec
    /\ target \in ReplicaCounts
    /\ now \in Times
    /\ pc \in {"Idle", "FetchingMetrics", "FetchingTarget", "ComputingRecommendation",
               "Updating", "Done", "Failed"}
    /\ err \in Errors
    /\ lastUpdate \in {Nil} \cup {Ptr(u) : u \in [replicas : ReplicaCounts, time : Times]}
    /\ outcomes \subseteq {"True", "False", "Unknown"} \X {"True", "False", "Unknown"}

\* ---------------------------------------------------- what a pass observed
\* The pass has run getDesiredReplicas.
Computed == desired # Nil

\* The pass is over.
Returned == pc \in {"Done", "Failed"}

\* Spec.Replicas of the scale target as the Get returned it (line 103
\* overwrites the local copy after saving it in existingReplicas).
FetchedReplicas ==
    IF existingReplicas # Nil THEN Deref(existingReplicas)
    ELSE Deref(scaleTarget).Spec.Replicas

\* The replica count the pass handed to Update.
SentReplicas == Deref(scaleTarget).Spec.Replicas

\* The errors of steps 1 and 2, and those of step 4.
FetchErrors == {"MetricError", "ResolutionError", "FetchError"}

UpdateErrors == {"UpdateResolutionError", "UpdateError"}

BoundsOrdered == AutoscalerSpec.MinReplicas <= AutoscalerSpec.MaxReplicas

\* The stabilization window of the rules the limiter used was still open
\* when the pass checked it.
WindowOpen ==
    /\ entryStatus.LastScaleTime # Nil
    /\ now < Deref(entryStatus.LastScaleTime)
               + Deref(desired).rules.StabilizationWindowSeconds

\* ----------------------------------------------------------------- claims

\* C1: with MinReplicas <= MaxReplicas the value getDesiredReplicas returns,
\* the replica count handed to Update and the count a successful Update
\* leaves on the scale target all lie in [MinReplicas, MaxReplicas].
C1_DesiredWithinBounds ==
    (Computed /\ BoundsOrdered) =>
        /\ Deref(desired).desiredReplicas >= AutoscalerSpec.MinReplicas
        /\ Deref(desired).desiredReplicas <= AutoscalerSpec.MaxReplicas
        /\ (pc = "Updating" \/ updateCalls > 0) =>
              /\ SentReplicas = Deref(desired).desiredReplicas
              /\ SentReplicas \in AutoscalerSpec.MinReplicas..AutoscalerSpec.MaxReplicas
        /\ (pc = "Done" /\ updateCalls > 0) =>
              target \in AutoscalerSpec.MinReplicas..AutoscalerSpec.MaxReplicas

\* A pass whose limited value lay above MaxReplicas and whose Update succeeded.
C1_Witness ==
    /\ Computed /\ BoundsOrdered
    /\ Deref(desired).limited > AutoscalerSpec.MaxReplicas
    /\ pc = "Done" /\ updateCalls = 1

\* C2: with MinReplicas <= MaxReplicas, after applyBoundedLimits the
\* ScalingUnbounded condition is True exactly when the clamped result equals
\* the value handed in and False exactly when the clamp changed it.
C2_UnboundedIffUnclamped ==
    (Computed /\ BoundsOrdered) =>
        /\ Status.Conditions["ScalingUnbounded"] = "True"
              <=> Deref(desired).desiredReplicas = Deref(desired).limited
        /\ Status.Conditions["ScalingUnbounded"] = "False"
              <=> Deref(desired).desiredReplicas # Deref(desired).limited

\* Scenario C: a value above MaxReplicas is clamped to MaxReplicas and the
\* condition is False.
C2_Witness ==
    /\ Computed /\ BoundsOrdered
    /\ Deref(desired).limited > AutoscalerSpec.MaxReplicas
    /\ Deref(desired).desiredReplicas = AutoscalerSpec.MaxReplicas
    /\ Status.Conditions["ScalingUnbounded"] = "False"

\* C3: a pass whose final desired replica count equals the fetched Spec.Replicas
\* issues no Update, returns no error and leaves LastScaleTime and
\* DesiredReplicas as they were when the pass was entered.
C3_NoChangeLeavesScale ==
    (Computed /\ Deref(desired).desiredReplicas = FetchedReplicas) =>
        /\ pc = "Done"
        /\ err = "nil"
        /\ updateCalls = 0
        /\ Status.LastScaleTime = entryStatus.LastScaleTime
        /\ Status.DesiredReplicas = entryStatus.DesiredReplicas

\* A no-change pass of an autoscaler that has scaled before and whose
\* recommendation differs from the replicas the workload reports.
C3_Witness ==
    /\ Computed /\ pc = "Done"
    /\ Deref(desired).desiredReplicas = FetchedReplicas
    /\ Deref(desired).desiredReplicas # Deref(scaleTarget).Status.Replicas
    /\ entryStatus.LastScaleTime # Nil

\* C4: with LastScaleTime = T and the window W of the rules in use, a pass at
\* now < T+W gets the fetched replica count back from applyTransientLimits
\* with AbleToScale False, and a pass at now >= T+W gets the recommendation
\* back with AbleToScale True.
C4_Stabilization ==
    (Computed /\ entryStatus.LastScaleTime # Nil) =>
        IF now < Deref(entryStatus.LastScaleTime)
                    + Deref(desired).rules.StabilizationWindowSeconds
        THEN /\ Deref(desired).limited = FetchedReplicas
             /\ Status.Conditions["AbleToScale"] = "False"
        ELSE /\ Deref(desired).limited = Deref(desired).recommendation
             /\ Status.Conditions["AbleToScale"] = "True"

\* Scenario A: a recommendation that differs from the replicas, inside the window.
C4_Witness ==
    /\ Computed /\ WindowOpen
    /\ Deref(desired).recommendation # FetchedReplicas
    /\ Deref(desired).limited = FetchedReplicas

\* C5: a pass that fails while fetching metrics or while resolving or
\* fetching the scale target issues no Update and leaves the whole status
\* as it was when the pass was entered.
C5_FetchFailureKeepsStatus ==
    (pc = "Failed" /\ err \in FetchErrors) =>
        /\ updateCalls = 0
        /\ Status = entryStatus

\* A failed Get in an autoscaler that has recorded replicas and a scale, while
\* the scale target holds another replica count than the recorded one.
C5_Witness ==
    /\ pc = "Failed" /\ err = "FetchError"
    /\ Status.CurrentReplicas # Nil
    /\ Status.DesiredReplicas # Nil
    /\ Status.DesiredReplicas # Ptr(target)

\* C6 as stated: whichever stage fails, only CurrentReplicas may differ
\* from the status the pass was entered with.
C6_FailureKeepsAllButCurrent ==
    pc = "Failed" =>
        /\ Status.DesiredReplicas = entryStatus.DesiredReplicas
        /\ Status.LastScaleTime = entryStatus.LastScaleTime
        /\ Status.Conditions = entryStatus.Conditions

\* C6 amended: a failed pass leaves DesiredReplicas and LastScaleTime as
\* they were; the conditions are as they were when the pass failed before
\* getDesiredReplicas ran, and are the ones getDesiredReplicas set when the
\* update failed.
C6_FailureKeepsScale ==
    pc = "Failed" =>
        /\ Status.DesiredReplicas = entryStatus.DesiredReplicas
        /\ Status.LastScaleTime = entryStatus.LastScaleTime
        /\ err \in FetchErrors => Status.Conditions = entryStatus.Conditions
        /\ err \in UpdateErrors =>
              /\ Computed
              /\ Status.Conditions["AbleToScale"] =
                    (IF WindowOpen THEN "False" ELSE "True")
              /\ Status.Conditions["ScalingUnbounded"] =
                    (IF Deref(desired).desiredReplicas = Deref(desired).limited
                     THEN "True" ELSE "False")

\* A pass that changed a condition and then failed at the update.
C6_Witness ==
    /\ pc = "Failed" /\ err \in UpdateErrors
    /\ entryStatus.DesiredReplicas # Nil
    /\ Status.Conditions # entryStatus.Conditions

\* C7: a pass that fails in updateScaleTarget returns the update error, and
\* DesiredReplicas and LastScaleTime keep the values they had when the pass
\* was entered; the scale target keeps its replica count.
C7_UpdateFailureKeepsScale ==
    (pc = "Failed" /\ existingReplicas # Nil) =>
        /\ err \in UpdateErrors
        /\ updateCalls > 0 <=> err = "UpdateError"
        /\ Status.DesiredReplicas = entryStatus.DesiredReplicas
        /\ Status.LastScaleTime = entryStatus.LastScaleTime
        /\ target = FetchedReplicas

\* A failed Update of a count that differs from the recorded DesiredReplicas.
C7_Witness ==
    /\ pc = "Failed" /\ err = "UpdateError"
    /\ entryStatus.DesiredReplicas # Nil
    /\ Status.DesiredReplicas # Ptr(SentReplicas)

\* C8: a pass whose final desired count differs from the fetched
\* Spec.Replicas and whose Update succeeds records that count in
\* DesiredReplicas and the current time in LastScaleTime; and within a pass
\* LastScaleTime differs from its value at entry only after a successful Update.
C8_SuccessRecordsScale ==
    /\ (pc = "Done" /\ Computed /\ Deref(desired).desiredReplicas # FetchedReplicas) =>
          /\ updateCalls = 1
          /\ Status.DesiredReplicas = Ptr(Deref(desired).desiredReplicas)
          /\ Status.LastScaleTime = Ptr(now)
    /\ Status.LastScaleTime # entryStatus.LastScaleTime =>
          /\ pc = "Done"
          /\ err = "nil"
          /\ updateCalls = 1

\* Scenario B: a later successful scale refreshes LastScaleTime.
C8_Witness ==
    /\ pc = "Done" /\ updateCalls = 1
    /\ entryStatus.LastScaleTime # Nil
    /\ Status.LastScaleTime # entryStatus.LastScaleTime

\* C9: the selected recommendation is the largest per-metric recommendation
\* under Max and under an unset policy, the smallest under Min and the fetched
\* Spec.Replicas under Disabled; it is the value the limiter is given (with
\* no window the limiter returns it).
C9_SelectPolicy ==
    recommendations # Nil =>
        LET recs == Deref(recommendations)
            policy == AutoscalerSpec.Behavior.SelectPolicy
            selected == Deref(desired).recommendation
        IN  /\ policy \in {"Max", "Unset"} =>
                  /\ \E i \in DOMAIN recs : selected = recs[i]
                  /\ \A i \in DOMAIN recs : selected >= recs[i]
            /\ policy = "Min" =>
                  /\ \E i \in DOMAIN recs : selected = recs[i]
                  /\ \A i \in DOMAIN recs : selected <= recs[i]
            /\ policy = "Disabled" => selected = FetchedReplicas
            /\ Deref(desired).limited = selected

\* Two metrics whose recommendations differ, the first one not being the
\* selected one, under an unset policy.
C9_Witness ==
    /\ recommendations # Nil
    /\ AutoscalerSpec.Behavior.SelectPolicy = "Unset"
    /\ Len(Deref(recommendations)) = 2
    /\ Deref(recommendations)[1] < Deref(recommendations)[2]
    /\ Deref(desired).recommendation = Deref(recommendations)[2]
    /\ FetchedReplicas # Deref(desired).recommendation

\* C10: a pass that fetched the metrics and the scale target ends with
\* AbleToScale and ScalingUnbounded each True or False, also when it changes
\* nothing and when its update fails; both are True when the window was not
\* open and the clamp left the value alone.
C10_ConditionsSetEveryPass ==
    (Returned /\ scaleTarget # Nil) =>
        /\ Computed
        /\ Status.Conditions["AbleToScale"] \in {"True", "False"}
        /\ Status.Conditions["ScalingUnbounded"] \in {"True", "False"}
        /\ (~WindowOpen /\ Deref(desired).desiredReplicas = Deref(desired).limited) =>
              /\ Status.Conditions["AbleToScale"] = "True"
              /\ Status.Conditions["ScalingUnbounded"] = "True"

\* A pass that found AbleToScale False, set both conditions True and then
\* failed at the update.
C10_Witness ==
    /\ pc = "Failed" /\ err = "UpdateError"
    /\ entryStatus.Conditions["AbleToScale"] = "False"
    /\ Status.Conditions["AbleToScale"] = "True"
    /\ Status.Conditions["ScalingUnbounded"] = "True"

\* C11: the window applyTransientLimits checks is the one of the direction
\* the recommendation implies.  A recommendation below the fetched replicas
\* at or after the end of the scale down window comes back unchanged with
\* AbleToScale True, whatever the scale up window; and a recommendation above
\* the fetched replicas at or after the end of the scale up window comes back
\* unchanged with AbleToScale True, whatever the scale down window.
C11_DirectionAwareWindow ==
    (Computed /\ entryStatus.LastScaleTime # Nil) =>
        LET T == Deref(entryStatus.LastScaleTime)
            up == AutoscalerSpec.Behavior.ScaleUp
            down == AutoscalerSpec.Behavior.ScaleDown
            rec == Deref(desired).recommendation
        IN  /\ (rec < FetchedReplicas /\ now >= T + down.StabilizationWindowSeconds) =>
                  /\ Deref(desired).rules = down
                  /\ Deref(desired).limited = rec
                  /\ Status.Conditions["AbleToScale"] = "True"
            /\ (rec > FetchedReplicas /\ now >= T + up.StabilizationWindowSeconds) =>
                  /\ Deref(desired).rules = up
                  /\ Deref(desired).limited = rec
                  /\ Status.Conditions["AbleToScale"] = "True"

\* A scale down let through while the scale up window is still open.
C11_Witness ==
    /\ Computed /\ entryStatus.LastScaleTime # Nil
    /\ Deref(desired).recommendation < FetchedReplicas
    /\ now < Deref(entryStatus.LastScaleTime)
               + AutoscalerSpec.Behavior.ScaleUp.StabilizationWindowSeconds
    /\ now >= Deref(entryStatus.LastScaleTime)
               + AutoscalerSpec.Behavior.ScaleDown.StabilizationWindowSeconds
    /\ Deref(desired).limited = Deref(desired).recommendation
    /\ Status.Conditions["AbleToScale"] = "True"

\* C12: while LastScaleTime is unset, applyTransientLimits returns the
\* recommendation with AbleToScale True under every window length, and does
\* not compute the end of a window from the unset time.
C12_UnsetScaleTimePasses ==
    (Computed /\ entryStatus.LastScaleTime = Nil) =>
        /\ Deref(desired).limited = Deref(desired).recommendation
        /\ Status.Conditions["AbleToScale"] = "True"
        /\ Deref(desired).ableAt = Nil

\* A first scale under rules whose window spans the modelled time.
C12_Witness ==
    /\ Computed /\ entryStatus.LastScaleTime = Nil
    /\ Deref(desired).rules.StabilizationWindowSeconds = MaxTime
    /\ Deref(desired).recommendation # FetchedReplicas
    /\ Deref(desired).limited = Deref(desired).recommendation
    /\ Status.Conditions["AbleToScale"] = "True"

\* The condition pair of the status: <<ScalingUnbounded, AbleToScale>>.
ConditionPair == <<Status.Conditions["ScalingUnbounded"], Status.Conditions["AbleToScale"]>>

\* C13: the two conditions are set independently of each other.  After
\* getDesiredReplicas AbleToScale is False exactly when the window was open
\* and ScalingUnbounded is False exactly when the clamp changed the value it
\* was given, so <<False, False>> is a pass the window held back and the clamp
\* changed; and the passes of an autoscaler leave behind pairs of True and
\* False only, each of the four being one a pass can leave.
C13_ConditionsOrthogonal ==
    /\ outcomes \subseteq {"True", "False"} \X {"True", "False"}
    /\ Computed =>
          /\ ConditionPair \in outcomes
          /\ Status.Conditions["AbleToScale"] = "False" <=> WindowOpen
          /\ Status.Conditions["AbleToScale"] = "True" <=> ~WindowOpen
          /\ Status.Conditions["ScalingUnbounded"] = "False"
                <=> Deref(desired).desiredReplicas # Deref(desired).limited
          /\ Status.Conditions["ScalingUnbounded"] = "True"
                <=> Deref(desired).desiredReplicas = Deref(desired).limited

\* Passes of one autoscaler have left each of the four pairs, the last one
\* <<False, False>>: held back by the window and changed by the clamp.
C13_Witness ==
    /\ outcomes = {"True", "False"} \X {"True", "False"}
    /\ Computed
    /\ ConditionPair = <<"False", "False">>
    /\ WindowOpen
    /\ Deref(desired).limited = FetchedReplicas
    /\ Deref(desired).desiredReplicas # Deref(desired).limited

\* The order of a pass: the steps that may follow one another.
PassOrder ==
    {<<"Idle", "FetchingMetrics">>,
     <<"FetchingMetrics", "FetchingTarget">>, <<"FetchingMetrics", "Failed">>,
     <<"FetchingTarget", "ComputingRecommendation">>, <<"FetchingTarget", "Failed">>,
     <<"ComputingRecommendation", "Done">>, <<"ComputingRecommendation", "Updating">>,
     <<"Updating", "Done">>, <<"Updating", "Failed">>,
     <<"Done", "Idle">>, <<"Failed", "Idle">>}

\* C14: a pass moves FetchingMetrics -> FetchingTarget ->
\* ComputingRecommendation -> (Done without change | Updating) and ends in
\* Done or Failed.  The scale target is fetched only with every metric
\* fetched, an Update is issued only after the Get of the same pass succeeded
\* and getDesiredReplicas ran, and a pass issues at most one Get and at most
\* one Update.
C14_PassOrder ==
    /\ [](/\ getCalls <= 1
          /\ updateCalls <= 1
          /\ (pc \in {"FetchingTarget", "ComputingRecommendation", "Updating"} \/ getCalls > 0)
                => Len(metrics) = AutoscalerSpec.Metrics
          /\ (pc \in {"ComputingRecommendation", "Updating"} \/ Computed \/ updateCalls > 0)
                => (getCalls = 1 /\ scaleTarget # Nil)
          /\ (pc = "Updating" \/ updateCalls > 0)
                => (Computed /\ existingReplicas # Nil)
          /\ (pc = "Done") => (Computed /\ err = "nil")
          /\ (pc = "Failed") => (err # "nil"))
    /\ [][pc' # pc => <<pc, pc'>> \in PassOrder]_vars

\* A later pass of an autoscaler that went through every step and ended in
\* Done after one Get and one Update.
C14_Witness ==
    /\ pc = "Done" /\ getCalls = 1 /\ updateCalls = 1
    /\ Len(metrics) = AutoscalerSpec.Metrics
    /\ entryStatus.LastScaleTime # Nil

\* C15: through passes that scale, change nothing or fail at any step,
\* DesiredReplicas and LastScaleTime are unset until an Update has succeeded,
\* and from then on are the replica count the last successful Update carried
\* and the time of that Update.
C15_StatusTracksLastUpdate ==
    IF lastUpdate = Nil
    THEN /\ Status.DesiredReplicas = Nil
         /\ Status.LastScaleTime = Nil
    ELSE /\ Status.DesiredReplicas = Ptr(Deref(lastUpdate).replicas)
         /\ Status.LastScaleTime = Ptr(Deref(lastUpdate).time)

\* A pass whose Update failed, later than the last successful Update, the
\* scale target having been changed by another writer since.
C15_Witness ==
    /\ pc = "Failed" /\ err = "UpdateError"
    /\ lastUpdate # Nil
    /\ Deref(lastUpdate).time < now
    /\ Deref(lastUpdate).replicas # target
    /\ Status.DesiredReplicas = Ptr(Deref(lastUpdate).replicas)

\* The autoscaler spec with the rate policies taken out of its scaling rules.
WithoutPolicies(spec) ==
    [spec EXCEPT !.Behavior.ScaleUp.Policies = <<>>,
                 !.Behavior.ScaleDown.Policies = <<>>]

\* C16: whatever rate policies the scaling rules hold, applyTransientLimits
\* returns the fetched replicas with AbleToScale False, and only inside the
\* window, or the recommendation itself with AbleToScale True; and it returns
\* the value and sets the status it would without any rate policy.
C16_PoliciesChangeNothing ==
    /\ Computed =>
          \/ /\ WindowOpen
             /\ Deref(desired).limited = FetchedReplicas
             /\ Status.Conditions["AbleToScale"] = "False"
          \/ /\ ~WindowOpen
             /\ Deref(desired).limited = Deref(desired).recommendation
             /\ Status.Conditions["AbleToScale"] = "True"
    /\ pc = "ComputingRecommendation" =>
          \A recommendation \in ReplicaCounts, tie \in {"ScaleUp", "ScaleDown"} :
             LET with == applyTransientLimits(AutoscalerSpec, Status,
                            Deref(scaleTarget).Spec.Replicas, recommendation, now, tie)
                 without == applyTransientLimits(WithoutPolicies(AutoscalerSpec), Status,
                               Deref(scaleTarget).Spec.Replicas, recommendation, now, tie)
             IN  /\ with.ret = without.ret
                 /\ with.Status = without.Status

\* A recommendation let through unchanged under rules that hold a Count
\* policy allowing no change.
C16_Witness ==
    /\ Computed
    /\ \E i \in DOMAIN Deref(desired).rules.Policies :
          /\ Deref(desired).rules.Policies[i].Type = "Count"
          /\ Deref(desired).rules.Policies[i].Value = 0
    /\ Deref(desired).recommendation # FetchedReplicas
    /\ Deref(desired).limited = Deref(desired).recommendation
    /\ Status.Conditions["AbleToScale"] = "True"

\* The value of [lo, hi] nearest to v.
Clamp(v, lo, hi) == IF v < lo THEN lo ELSE IF v > hi THEN hi ELSE v

\* The fetched Spec.Replicas lie outside [MinReplicas, MaxReplicas].
FetchedOutOfBounds ==
    FetchedReplicas \notin AutoscalerSpec.MinReplicas..AutoscalerSpec.MaxReplicas

\* What C17 says of a pass.  The pass goes on to updateScaleTarget, which
\* issues the Update unless its parseGroupResource fails.
ClampsInsideWindow ==
    /\ Status.Conditions["AbleToScale"] = "False"
    /\ Deref(desired).limited = FetchedReplicas
    /\ Deref(desired).desiredReplicas =
          Clamp(FetchedReplicas, AutoscalerSpec.MinReplicas, AutoscalerSpec.MaxReplicas)
    /\ Deref(desired).desiredReplicas # FetchedReplicas
    /\ existingReplicas # Nil
    /\ pc = "Updating" \/ updateCalls = 1 \/ err = "UpdateResolutionError"
    /\ SentReplicas = Deref(desired).desiredReplicas
    /\ Status.Conditions["ScalingUnbounded"] = "False"
    /\ pc = "Done" => (Status.LastScaleTime = Ptr(now) /\ target = SentReplicas)

\* C17 as stated: in every pass inside the stabilization window whose
\* fetched Spec.Replicas lie outside [MinReplicas, MaxReplicas] the desired
\* count is the clamp of the fetched count, differs from it, is sent in an
\* Update, ScalingUnbounded is False and a successful Update refreshes
\* LastScaleTime.
C17_WindowDoesNotBlockClamp ==
    (Computed /\ WindowOpen /\ FetchedOutOfBounds) => ClampsInsideWindow

\* C17 amended: the same, for an autoscaler with MinReplicas <= MaxReplicas.
C17_WindowDoesNotBlockOrderedClamp ==
    (Computed /\ BoundsOrdered /\ WindowOpen /\ FetchedOutOfBounds) => ClampsInsideWindow

\* A count put above MaxReplicas by another writer is brought back inside
\* the window by an Update that succeeds.
C17_Witness ==
    /\ Computed /\ BoundsOrdered /\ WindowOpen
    /\ FetchedReplicas > AutoscalerSpec.MaxReplicas
    /\ Deref(desired).recommendation # FetchedReplicas
    /\ pc = "Done" /\ updateCalls = 1
    /\ target = AutoscalerSpec.MaxReplicas
    /\ Status.LastScaleTime = Ptr(now)

\* The stabilization window of the direction in which the pass changes the
\* replica count.
ChangeWindow ==
    IF SentReplicas > FetchedReplicas
    THEN AutoscalerSpec.Behavior.ScaleUp.StabilizationWindowSeconds
    ELSE AutoscalerSpec.Behavior.ScaleDown.StabilizationWindowSeconds

\* C18: with MinReplicas <= MaxReplicas and no other writer of the scale
\* target, a pass that has scaled before hands a count to Update only at or
\* after LastScaleTime + W, W being the window of the direction of the change;
\* so a successful Update lies at least W after the one before it.
C18_UpdatesRespectWindow ==
    (BoundsOrdered /\ entryStatus.LastScaleTime # Nil /\ (pc = "Updating" \/ updateCalls > 0)) =>
        /\ now >= Deref(entryStatus.LastScaleTime) + ChangeWindow
        /\ (pc = "Done") =>
              Deref(Status.LastScaleTime) - Deref(entryStatus.LastScaleTime) >= ChangeWindow

\* A second successful Update, made when the window of its direction ended.
C18_Witness ==
    /\ BoundsOrdered /\ entryStatus.LastScaleTime # Nil
    /\ pc = "Done" /\ updateCalls = 1
    /\ ChangeWindow = MaxTime
    /\ now = Deref(entryStatus.LastScaleTime) + ChangeWindow

\* C19: with MinReplicas > MaxReplicas applyBoundedLimits returns MaxReplicas
\* for every value, which lies below MinReplicas, and sets ScalingUnbounded
\* False for every value but MaxReplicas (True for MaxReplicas); a pass of
\* such an autoscaler computes MaxReplicas, does not fail in the computation
\* and leaves the spec as it is.
C19_InvertedBoundsYieldMax ==
    /\ [](~BoundsOrdered =>
            /\ \A v \in ReplicaCounts :
                  LET bounded == applyBoundedLimits(AutoscalerSpec, Status, v)
                  IN  /\ bounded.ret = AutoscalerSpec.MaxReplicas
                      /\ bounded.ret < AutoscalerSpec.MinReplicas
                      /\ bounded.Status.Conditions["ScalingUnbounded"] =
                            (IF v = AutoscalerSpec.MaxReplicas THEN "True" ELSE "False")
            /\ Computed =>
                  /\ Deref(desired).desiredReplicas = AutoscalerSpec.MaxReplicas
                  /\ Status.Conditions["ScalingUnbounded"] =
                        (IF Deref(desired).limited = AutoscalerSpec.MaxReplicas
                         THEN "True" ELSE "False")
                  /\ err \in {"nil"} \cup UpdateErrors)
    /\ [][AutoscalerSpec' = AutoscalerSpec]_vars

\* An autoscaler with MinReplicas > MaxReplicas whose limiter returned
\* MinReplicas has scaled its target to MaxReplicas.
C19_Witness ==
    /\ ~BoundsOrdered /\ Computed
    /\ Deref(desired).limited = AutoscalerSpec.MinReplicas
    /\ Status.Conditions["ScalingUnbounded"] = "False"
    /\ pc = "Done" /\ updateCalls = 1
    /\ target = AutoscalerSpec.MaxReplicas
    /\ target < AutoscalerSpec.MinReplicas

\* C20: with MinReplicas <= MaxReplicas and no other writer of the scale
\* target, a pass whose fetched Spec.Replicas are the clamp of the selected
\* recommendation computes the fetched count, inside and outside the window,
\* issues no Update and leaves DesiredReplicas, LastScaleTime and the scale
\* target as they were; the next pass so finds the same replica count.
C20_FixedPointIsStable ==
    (/\ Computed
     /\ BoundsOrdered
     /\ FetchedReplicas = Clamp(Deref(desired).recommendation,
                                AutoscalerSpec.MinReplicas, AutoscalerSpec.MaxReplicas)) =>
        /\ Deref(desired).desiredReplicas = FetchedReplicas
        /\ pc = "Done"
        /\ err = "nil"
        /\ updateCalls = 0
        /\ target = FetchedReplicas
        /\ Status.DesiredReplicas = entryStatus.DesiredReplicas
        /\ Status.LastScaleTime = entryStatus.LastScaleTime
        /\ lastUpdate # Nil => Deref(lastUpdate).replicas = target

\* A pass after the window ended, whose recommendation lies outside the
\* bounds and whose clamp is the count the autoscaler set before.
C20_Witness ==
    /\ Computed /\ BoundsOrdered /\ ~WindowOpen
    /\ entryStatus.LastScaleTime # Nil
    /\ Deref(entryStatus.LastScaleTime) < now
    /\ Deref(desired).recommendation # FetchedReplicas
    /\ Deref(desired).limited = Deref(desired).recommendation
    /\ FetchedReplicas = Clamp(Deref(desired).recommendation,
                               AutoscalerSpec.MinReplicas, AutoscalerSpec.MaxReplicas)
    /\ pc = "Done" /\ updateCalls = 0

====
